---- MODULE Spec2Model ----
(***************************************************************************)
(* Finanseer categorization subsystem: the record store (transactions,     *)
(* subcategories, rules) and the core operations of finanseer/core.py      *)
(* acting on it through one SQLAlchemy session.                            *)
(*                                                                         *)
(* Text is modelled as sequences of one-character strings.  An absent      *)
(* (None / SQL NULL) text is the distinguished value NoStr; an absent      *)
(* subcategory_id is NULL.                                                 *)
(***************************************************************************)
EXTENDS Integers, Sequences, FiniteSets, TLC

\* ------------------------------------------------------------------------
\* Bounds of the model
\* ------------------------------------------------------------------------
MaxRules == 2
\* the longest text given to normalize_description on its own
MaxTextLen == 3
\* the most rows of a Rabobank file imported on its own
MaxRows == 3

\* ------------------------------------------------------------------------
\* Values
\* ------------------------------------------------------------------------
NoStr == <<"<None>">>
NULL == -1
None == <<"None">>

\* Python truthiness of an Optional[str]: None and "" are both falsy.
Truthy(s) == s # NoStr /\ s # <<>>

\* ------------------------------------------------------------------------
\* Characters and Python string operations
\* ------------------------------------------------------------------------
UpperLetters == <<"A","B","C","D","E","F","G","H","I","J","K","L","M","N","O","P","Q","R","S","T","U","V","W","X","Y","Z">>
LowerLetters == <<"a","b","c","d","e","f","g","h","i","j","k","l","m","n","o","p","q","r","s","t","u","v","w","x","y","z">>
Digits == {"0","1","2","3","4","5","6","7","8","9"}
Whitespace == {" "}

Range(f) == {f[i] : i \in DOMAIN f}

\* The lower-case letter of each ASCII capital.
AsciiLower ==
    [c \in Range(UpperLetters) |-> LowerLetters[CHOOSE i \in 1..26 : UpperLetters[i] = c]]

\* str.lower() on one character ("É" is the only non-ASCII capital used).
LowerOf(c) ==
    IF c \in DOMAIN AsciiLower THEN AsciiLower[c]
    ELSE IF c = "É" THEN "é" ELSE c

RECURSIVE Lower(_)
\* str.lower()
Lower(s) == IF s = <<>> THEN <<>> ELSE <<LowerOf(Head(s))>> \o Lower(Tail(s))

\* Python: a in b  (substring containment)
Contains(b, a) ==
    \E i \in 0..(Len(b) - Len(a)) :
        \A j \in 1..Len(a) : b[i + j] = a[j]

RECURSIVE LStrip(_)
LStrip(s) == IF s # <<>> /\ Head(s) \in Whitespace THEN LStrip(Tail(s)) ELSE s

RECURSIVE RStrip(_)
RStrip(s) ==
    IF s # <<>> /\ s[Len(s)] \in Whitespace
    THEN RStrip(SubSeq(s, 1, Len(s) - 1)) ELSE s

\* str.strip()
Strip(s) == RStrip(LStrip(s))

\* ------------------------------------------------------------------------
\* text_processing.py
\* ------------------------------------------------------------------------
STOPWORDS ==
    { <<"a","b","n">>,
      <<"a","m","r","o">>,
      <<"i","n","g">>,
      <<"r","a","b","o">>,
      <<"r","a","b","o","b","a","n","k">>,
      <<"k","n","a","b">>,
      <<"b","u","n","q">>,
      <<"b","e","t","a","l","i","n","g">>,
      <<"b","e","t","a","a","l","a","u","t","o","m","a","a","t">>,
      <<"s","e","p","a">>,
      <<"i","d","e","a","l">>,
      <<"e","u","r","o","p","e">>,
      <<"b","v">>,
      <<"v","i","a">>,
      <<"t","r","n">>,
      <<"i","b","a","n">>,
      <<"b","i","c">>,
      <<"p","a","s","n","r">>,
      <<"d","a","t","u","m">>,
      <<"t","i","j","d">>,
      <<"k","e","n","m","e","r","k">>,
      <<"o","m","s","c","h","r","i","j","v","i","n","g">>,
      <<"m","a","c","h","t","i","g","i","n","g","s","k","e","n","m","e","r","k">>,
      <<"i","n","c","a","s","s","a","n","t">>,
      <<"i","d">>,
      <<"e","o">>,
      <<"e","n">>,
      <<"r","a","b","o","m","o","b","i","e","l">>,
      <<"i","n","t","e","r","n","e","t","b","a","n","k","i","e","r","e","n">>,
      <<"m","o","b","i","e","l">>,
      <<"b","a","n","k","i","e","r","e","n">>,
      <<"o","v","e","r","b","o","e","k","i","n","g">>,
      <<"r","e","k","e","n","i","n","g">>,
      <<"n","a","a","r">>,
      <<"v","a","n">>,
      <<"e","o">>,
      <<"b","i","j">>,
      <<"s","t","i","c","h","t","i","n","g">>,
      <<"p","a","y","m","e","n","t","s">>,
      <<"o","n","l","i","n","e">>,
      <<"p","a","y","m","e","n","t">> }

\* unidecode() of one character: ASCII is kept, other characters are
\* replaced by their closest ASCII spelling.
UnidecodeChar(c) ==
    CASE c = "é" -> <<"e">>
      [] c = "É" -> <<"E">>
      [] c = "ß" -> <<"s","s">>
      [] c = "€" -> <<"E","U","R">>
      [] OTHER -> <<c>>

RECURSIVE Unidecode(_)
Unidecode(s) ==
    IF s = <<>> THEN <<>> ELSE UnidecodeChar(Head(s)) \o Unidecode(Tail(s))

\* The characters the class [a-z0-9\s] accepts.
AlnumOrSpace == Range(LowerLetters) \cup Digits \cup Whitespace

\* re.sub(r'[^a-z0-9\s]', ' ', text)
RemoveNonAlnum(s) ==
    [i \in 1..Len(s) |-> IF s[i] \in AlnumOrSpace THEN s[i] ELSE " "]

RECURSIVE SplitFrom(_, _)
\* str.split(): the maximal runs of non-whitespace characters, in order.
\* cur is the token being read.
SplitFrom(s, cur) ==
    IF s = <<>>
    THEN IF cur = <<>> THEN <<>> ELSE <<cur>>
    ELSE IF Head(s) \in Whitespace
         THEN (IF cur = <<>> THEN <<>> ELSE <<cur>>) \o SplitFrom(Tail(s), <<>>)
         ELSE SplitFrom(Tail(s), Append(cur, Head(s)))

Split(s) == SplitFrom(s, <<>>)

RECURSIVE RemoveStopwords(_)
\* [token for token in tokens if token not in STOPWORDS]
RemoveStopwords(tokens) ==
    IF tokens = <<>> THEN <<>>
    ELSE (IF Head(tokens) \in STOPWORDS THEN <<>> ELSE <<Head(tokens)>>)
         \o RemoveStopwords(Tail(tokens))

RECURSIVE Join(_)
\* " ".join(tokens)
Join(tokens) ==
    IF tokens = <<>> THEN <<>>
    ELSE IF Len(tokens) = 1 THEN Head(tokens)
    ELSE Head(tokens) \o <<" ">> \o Join(Tail(tokens))

RECURSIVE CollapseSpaces(_)
\* re.sub(r'\s+', ' ', text)
CollapseSpaces(s) ==
    IF s = <<>> THEN <<>>
    ELSE IF Head(s) \in Whitespace
         THEN <<" ">> \o CollapseSpaces(LStrip(s))
         ELSE <<Head(s)>> \o CollapseSpaces(Tail(s))

\* The pipeline with the stopwords removed before the characters outside
\* [a-z0-9\s] are.
normalize_description_StopwordsFirst(text) ==
    IF ~Truthy(text) THEN <<>>
    ELSE LET t1 == Unidecode(Lower(text))
             t2 == Join(RemoveStopwords(Split(t1)))
             t3 == RemoveNonAlnum(t2)
         IN  Strip(CollapseSpaces(t3))

normalize_description(text) ==
    IF ~Truthy(text) THEN <<>>
    ELSE LET t1 == Unidecode(Lower(text))
             t2 == RemoveNonAlnum(t1)
             t3 == Join(RemoveStopwords(Split(t2)))
         IN  Strip(CollapseSpaces(t3))

\* ------------------------------------------------------------------------
\* The record store, seen through the session of one process
\* ------------------------------------------------------------------------
\* table categories: sequence of names, id = index
VARIABLE categories
\* table subcategories: sequence of [name, category_id], id = index
VARIABLE subcategories
\* table transactions: function id -> row
VARIABLE transactions
\* table rules: sequence of rows, id = index
VARIABLE rules
\* the last call of an operation: which operation, whether it was a dry
\* run, what it returned, what it did with the unit of work and what it
\* logged as an error
VARIABLE last
\* the arguments of the last call of generate_id or normalize_description
\* made on its own; <<>> in the runs of the commands
VARIABLE args

vars == <<categories, subcategories, transactions, rules, last, args>>

IntVal(n) == <<"int", n>>
ListVal(l) == <<"list", l>>

\* All orderings of the finite set S, as sequences without repetition.
Perms(S) ==
    {p \in [1..Cardinality(S) -> S] :
        \A i, j \in 1..Cardinality(S) : i # j => p[i] # p[j]}

\* The lookup of the subcategory taken to find a row for every id.
SubcategoryExists_Always(subcategory_id) == TRUE

\* Existence tested as the id being a positive number.
SubcategoryExists_Positive(subcategory_id) == subcategory_id > 0

\* db.query(Subcategory).filter(Subcategory.id == subcategory_id).first()
SubcategoryExists(subcategory_id) == subcategory_id \in DOMAIN subcategories

\* ------------------------------------------------------------------------
\* RuleType: core.py imports it from schemas.py, which does not define it.
\* Its values are those of spec section 3 (and of the add-rule command's
\* choices, __main__.py line 258).
\* ------------------------------------------------------------------------
IBAN == "iban"
COUNTERPARTY_NAME == "counterparty_name"
DESCRIPTION_CONTAINS == "description_contains"

\* ------------------------------------------------------------------------
\* core.py : queries
\* ------------------------------------------------------------------------
\* The transaction query without its filter.
Uncategorized_NoFilter == DOMAIN transactions

\* Transaction.subcategory_id.is_(None)
Uncategorized == {id \in DOMAIN transactions : transactions[id].subcategory_id = NULL}

\* ORDER BY transaction_date DESC: rows of equal date come in an order the
\* store chooses.
OrderByDateDesc(ids) ==
    {p \in Perms(ids) :
        \A i, j \in 1..Len(p) :
            i < j => transactions[p[i]].transaction_date >= transactions[p[j]].transaction_date}

\* The query for the transactions to process without its filter: every
\* stored transaction is returned.
get_uncategorized_transactions_Unfiltered == OrderByDateDesc(DOMAIN transactions)

\* get_uncategorized_transactions(db): the possible result lists.
get_uncategorized_transactions == OrderByDateDesc(Uncategorized)

\* The rule query without its ORDER BY.
RulesByPriority_NoOrder == Perms(DOMAIN rules)

\* db.query(Rule).order_by(Rule.priority).all(): the possible result lists,
\* as sequences of rule ids.  Rules of equal priority come in an order the
\* store chooses.
RulesByPriority ==
    {p \in Perms(DOMAIN rules) :
        \A i, j \in 1..Len(p) :
            i < j => rules[p[i]].priority <= rules[p[j]].priority}

\* SQL lower(): folds ASCII letters only.
SqlLowerOf(c) == IF c \in DOMAIN AsciiLower THEN AsciiLower[c] ELSE c

SqlLower(s) == [i \in 1..Len(s) |-> SqlLowerOf(s[i])]

RECURSIVE Like(_, _)
\* SQL  s LIKE p : '%' matches any run of characters, '_' any one character.
Like(s, p) ==
    IF p = <<>> THEN s = <<>>
    ELSE IF Head(p) = "%"
         THEN Like(s, Tail(p)) \/ (s # <<>> /\ Like(Tail(s), p))
         ELSE /\ s # <<>>
              /\ (Head(p) = "_" \/ Head(p) = Head(s))
              /\ Like(Tail(s), Tail(p))

\* column.ilike(pattern): lower(column) LIKE lower(pattern); NULL never matches.
ILike(column, pattern) ==
    /\ column # NoStr
    /\ Like(SqlLower(column), SqlLower(pattern))

\* get_transactions_by_text(db, text_pattern): the ids of the rows selected.
get_transactions_by_text(text_pattern) ==
    LET pattern == <<"%">> \o text_pattern \o <<"%">>
    IN  {id \in DOMAIN transactions :
            /\ transactions[id].subcategory_id = NULL
            /\ \/ ILike(transactions[id].counterparty_name, pattern)
               \/ ILike(transactions[id].description_raw, pattern)}

\* ------------------------------------------------------------------------
\* core.py : apply_rules
\* ------------------------------------------------------------------------
\* The iban test comparing without regard to case.
IbanEquals_IgnoreCase(t, rule) ==
    t.counterparty_iban # NoStr /\ Lower(t.counterparty_iban) = Lower(rule.pattern)

\* t.counterparty_iban == rule.pattern
IbanEquals(t, rule) == t.counterparty_iban = rule.pattern

\* The name test without the two calls of lower().
NameContains_CaseSensitive(t, rule) ==
    /\ Truthy(t.counterparty_name)
    /\ Contains(t.counterparty_name, rule.pattern)

\* t.counterparty_name and rule.pattern.lower() in t.counterparty_name.lower()
NameContains(t, rule) ==
    /\ Truthy(t.counterparty_name)
    /\ Contains(Lower(t.counterparty_name), Lower(rule.pattern))

\* The description test with the pattern normalized like the description.
DescriptionContains_PatternNormalized(t, rule) ==
    Contains(normalize_description(t.description_raw), normalize_description(rule.pattern))

\* rule.pattern.lower() in normalize_description(t.description_raw)
DescriptionContains(t, rule) ==
    Contains(normalize_description(t.description_raw), Lower(rule.pattern))

\* The match test of one rule against one transaction (the if/elif chain).
RuleMatches(rule, t) ==
    IF rule.type = IBAN /\ IbanEquals(t, rule)
    THEN TRUE
    ELSE IF rule.type = COUNTERPARTY_NAME /\ NameContains(t, rule)
    THEN TRUE
    ELSE IF rule.type = DESCRIPTION_CONTAINS /\ Truthy(t.description_raw)
    THEN DescriptionContains(t, rule)
    ELSE FALSE

RECURSIVE FirstMatch(_, _)
\* The inner loop "for rule in rules ... break": the id of the first rule of
\* the list rs that matches t, or 0 when the loop ends without a match.
FirstMatch(t, rs) ==
    IF rs = <<>> THEN 0
    ELSE IF RuleMatches(rules[Head(rs)], t) THEN Head(rs)
    ELSE FirstMatch(t, Tail(rs))

RECURSIVE ApplyLoop_AlwaysAssign(_, _, _, _, _)
\* The outer loop without the test of dry_run before the assignment.
ApplyLoop_AlwaysAssign(ts, rs, objs, count, dry_run) ==
    IF ts = <<>> THEN [objs |-> objs, count |-> count]
    ELSE LET id == Head(ts)
             r  == FirstMatch(objs[id], rs)
         IN  IF r = 0
             THEN ApplyLoop_AlwaysAssign(Tail(ts), rs, objs, count, dry_run)
             ELSE ApplyLoop_AlwaysAssign(Tail(ts), rs,
                            [objs EXCEPT ![id].subcategory_id = rules[r].subcategory_id],
                            count + 1, dry_run)

RECURSIVE ApplyLoop_CountLiveOnly(_, _, _, _, _)
\* The outer loop with the increment of categorized_count moved into the
\* live branch.
ApplyLoop_CountLiveOnly(ts, rs, objs, count, dry_run) ==
    IF ts = <<>> THEN [objs |-> objs, count |-> count]
    ELSE LET id == Head(ts)
             r  == FirstMatch(objs[id], rs)
         IN  IF r = 0
             THEN ApplyLoop_CountLiveOnly(Tail(ts), rs, objs, count, dry_run)
             ELSE IF dry_run
             THEN ApplyLoop_CountLiveOnly(Tail(ts), rs, objs, count, dry_run)
             ELSE ApplyLoop_CountLiveOnly(Tail(ts), rs,
                            [objs EXCEPT ![id].subcategory_id = rules[r].subcategory_id],
                            count + 1, dry_run)

RECURSIVE ApplyLoop_CountEveryMatch(_, _, _, _, _)
\* The outer loop with categorized_count raised for every rule that matches.
ApplyLoop_CountEveryMatch(ts, rs, objs, count, dry_run) ==
    IF ts = <<>> THEN [objs |-> objs, count |-> count]
    ELSE LET id == Head(ts)
             r  == FirstMatch(objs[id], rs)
             n  == Cardinality({k \in 1..Len(rs) : RuleMatches(rules[rs[k]], objs[id])})
         IN  IF r = 0
             THEN ApplyLoop_CountEveryMatch(Tail(ts), rs, objs, count, dry_run)
             ELSE IF dry_run
             THEN ApplyLoop_CountEveryMatch(Tail(ts), rs, objs, count + n, dry_run)
             ELSE ApplyLoop_CountEveryMatch(Tail(ts), rs,
                            [objs EXCEPT ![id].subcategory_id = rules[r].subcategory_id],
                            count + n, dry_run)

RECURSIVE ApplyLoop(_, _, _, _, _)
\* The outer loop "for t in transactions": ts the ids still to visit, rs the
\* rule list, objs the session's transaction objects, count the value of
\* categorized_count.
ApplyLoop(ts, rs, objs, count, dry_run) ==
    IF ts = <<>> THEN [objs |-> objs, count |-> count]
    ELSE LET id == Head(ts)
             r  == FirstMatch(objs[id], rs)
         IN  IF r = 0
             THEN ApplyLoop(Tail(ts), rs, objs, count, dry_run)
             ELSE IF dry_run
             THEN ApplyLoop(Tail(ts), rs, objs, count + 1, dry_run)
             ELSE ApplyLoop(Tail(ts), rs,
                            [objs EXCEPT ![id].subcategory_id = rules[r].subcategory_id],
                            count + 1, dry_run)

\* db.commit() writes the session's objects to the store.
Commit(stored, objs) == objs

\* An except branch without db.rollback(): the session's changes stay.
Rollback_Missing(stored, objs) == objs

\* db.rollback() discards the session's changes: the stored rows stay.
Rollback(stored, objs) == stored

\* ------------------------------------------------------------------------
\* schemas.py : Transaction.generate_id
\* ------------------------------------------------------------------------
DigitChars == <<"0","1","2","3","4","5","6","7","8","9">>
DigitVal(c) == (CHOOSE i \in 1..10 : DigitChars[i] = c) - 1
IsDigits(s) == s # <<>> /\ \A i \in 1..Len(s) : s[i] \in Digits

RECURSIVE NatVal(_)
\* int() of a string of digits
NatVal(s) ==
    IF s = <<>> THEN 0
    ELSE 10 * NatVal(SubSeq(s, 1, Len(s) - 1)) + DigitVal(s[Len(s)])

RECURSIVE NatStr(_)
\* str() of a natural number
NatStr(n) ==
    IF n < 10 THEN <<DigitChars[n + 1]>>
    ELSE NatStr(n \div 10) \o <<DigitChars[(n % 10) + 1]>>

Pad2(n) == IF n < 10 THEN <<"0">> \o NatStr(n) ELSE NatStr(n)

Pad4(n) ==
    IF n < 10 THEN <<"0","0","0">> \o NatStr(n)
    ELSE IF n < 100 THEN <<"0","0">> \o NatStr(n)
    ELSE IF n < 1000 THEN <<"0">> \o NatStr(n)
    ELSE NatStr(n)

\* date.isoformat(); a date is the number YYYYMMDD.
IsoFormat(d) ==
    Pad4(d \div 10000) \o <<"-">> \o Pad2((d \div 100) % 100) \o <<"-">> \o Pad2(d % 100)

Abs(n) == IF n < 0 THEN -n ELSE n

RECURSIVE Pow10(_)
Pow10(k) == IF k = 0 THEN 1 ELSE 10 * Pow10(k - 1)

\* Decimal.quantize(Decimal("0.01")), rounding half to even.  A Decimal is
\* [coeff, scale], its value coeff / 10^scale; the result is in cents.
Quantize(dec) ==
    IF dec.scale <= 2 THEN dec.coeff * Pow10(2 - dec.scale)
    ELSE LET div  == Pow10(dec.scale - 2)
             mag  == Abs(dec.coeff)
             q    == mag \div div
             rem  == mag % div
             up   == 2 * rem > div \/ (2 * rem = div /\ q % 2 = 1)
             qr   == IF up THEN q + 1 ELSE q
         IN  IF dec.coeff < 0 THEN -qr ELSE qr

\* str() of a quantized Decimal given in cents, e.g. 1050 -> "10.50"
CentsStr(cents) ==
    (IF cents < 0 THEN <<"-">> ELSE <<>>)
    \o NatStr(Abs(cents) \div 100) \o <<".">> \o Pad2(Abs(cents) % 100)

\* The string hashed without the amount.
generate_id_NoAmount(transaction_date, amount, counterparty_iban, counterparty_name, description) ==
    LET counterparty_id ==
            IF Truthy(counterparty_iban) THEN counterparty_iban
            ELSE IF Truthy(counterparty_name) THEN counterparty_name
            ELSE <<>>
    IN  IsoFormat(transaction_date)
        \o Strip(counterparty_id)
        \o (IF Truthy(description) THEN Strip(description) ELSE <<>>)

\* The string generate_id hashes.  SHA-256 is taken to be injective, so the
\* id of a transaction is this string.
generate_id(transaction_date, amount, counterparty_iban, counterparty_name, description) ==
    LET counterparty_id ==
            IF Truthy(counterparty_iban) THEN counterparty_iban
            ELSE IF Truthy(counterparty_name) THEN counterparty_name
            ELSE <<>>
    IN  IsoFormat(transaction_date)
        \o CentsStr(Quantize(amount))
        \o Strip(counterparty_id)
        \o (IF Truthy(description) THEN Strip(description) ELSE <<>>)

\* ------------------------------------------------------------------------
\* importers.py : import_rabobank_csv
\* ------------------------------------------------------------------------
\* _clean_str(value): None for a missing cell, else the stripped text.
clean_str(value) == IF value = NoStr THEN NoStr ELSE Strip(value)

RECURSIVE SplitOn(_, _, _)
\* The pieces of s between occurrences of the character sep.
SplitOn(s, sep, cur) ==
    IF s = <<>> THEN <<cur>>
    ELSE IF Head(s) = sep THEN <<cur>> \o SplitOn(Tail(s), sep, <<>>)
    ELSE SplitOn(Tail(s), sep, Append(cur, Head(s)))

IsLeap(y) == (y % 4 = 0 /\ y % 100 # 0) \/ y % 400 = 0

DaysInMonth(y, m) ==
    IF m = 2 THEN (IF IsLeap(y) THEN 29 ELSE 28)
    ELSE IF m \in {4, 6, 9, 11} THEN 30 ELSE 31

\* datetime.strptime(s, "%Y-%m-%d").date(): the date as the number YYYYMMDD,
\* or 0 when strptime raises ValueError.
ParseDate(s) ==
    LET parts == SplitOn(s, "-", <<>>)
    IN  IF /\ Len(parts) = 3
           /\ \A i \in 1..3 : IsDigits(parts[i])
           /\ Len(parts[1]) = 4
           /\ Len(parts[2]) \in {1, 2}
           /\ Len(parts[3]) \in {1, 2}
        THEN LET y == NatVal(parts[1])
                 m == NatVal(parts[2])
                 d == NatVal(parts[3])
             IN  IF y >= 1 /\ m \in 1..12 /\ d \in 1..DaysInMonth(y, m)
                 THEN y * 10000 + m * 100 + d
                 ELSE 0
        ELSE 0

\* str.replace(a, b) for single characters
Replace(s, a, b) == [i \in 1..Len(s) |-> IF s[i] = a THEN b ELSE s[i]]

\* Decimal(s) for the plain notation [sign] digits [. digits]: the value as
\* [ok, coeff, scale]; ok is FALSE when Decimal raises InvalidOperation.
ParseDecimal(s) ==
    LET t      == Strip(s)
        signed == t # <<>> /\ Head(t) \in {"+", "-"}
        body   == IF signed THEN Tail(t) ELSE t
        parts  == SplitOn(body, ".", <<>>)
        int    == parts[1]
        frac   == IF Len(parts) = 2 THEN parts[2] ELSE <<>>
        digits == int \o frac
    IN  IF /\ Len(parts) \in {1, 2}
           /\ IsDigits(digits)
        THEN [ok |-> TRUE,
              coeff |-> IF signed /\ Head(t) = "-" THEN -NatVal(digits) ELSE NatVal(digits),
              scale |-> Len(frac)]
        ELSE [ok |-> FALSE, coeff |-> 0, scale |-> 0]

DEBIT == "debit"
CREDIT == "credit"

\* " ".join(p for p in desc_parts if p).strip() or None
JoinDescription(desc_parts) ==
    LET kept   == SelectSeq(desc_parts, Truthy)
        joined == Strip(Join(kept))
    IN  IF joined = <<>> THEN NoStr ELSE joined

\* A merge that writes every column of the given object, the unset
\* subcategory_id as NULL.
Merge_Overwrite(objs, t) ==
    [id \in DOMAIN objs \cup {t.id} |-> IF id = t.id THEN t ELSE objs[id]]

\* db.merge(db_transaction): the row of that id takes the attributes the
\* given object carries (subcategory_id is not among them); a new row is
\* inserted with subcategory_id NULL.
Merge(objs, t) ==
    IF t.id \in DOMAIN objs
    THEN [objs EXCEPT ![t.id] = [t EXCEPT !.subcategory_id = objs[t.id].subcategory_id]]
    ELSE [id \in DOMAIN objs \cup {t.id} |-> IF id = t.id THEN t ELSE objs[id]]

\* The amount kept with its sign.
AmountAbs_Signed(amount_decimal) == amount_decimal

\* abs(amount_decimal)
AmountAbs(amount_decimal) == [amount_decimal EXCEPT !.coeff = Abs(@)]

\* Zero booked as a debit.
MutationTypeOf_ZeroIsDebit(amount_decimal) ==
    IF amount_decimal.coeff > 0 THEN CREDIT ELSE DEBIT

\* MutationType.CREDIT if amount_decimal >= 0 else MutationType.DEBIT
MutationTypeOf(amount_decimal) ==
    IF amount_decimal.coeff >= 0 THEN CREDIT ELSE DEBIT

\* The test of processed_ids left out: no row is taken for a duplicate.
IsDuplicate_Never(st, transaction_id) == FALSE

\* if transaction_id in processed_ids
IsDuplicate(st, transaction_id) == transaction_id \in st.processed_ids

\* The body of "for index, row in df.iterrows()" for one row.  st is
\* [objs, processed_ids, transactions_processed, skipped_rows].
ImportRow(st, row) ==
    LET account_id           == clean_str(row.account)
        transaction_date_str == clean_str(row.datum)
        amount_str           == clean_str(row.bedrag)
        currency             == clean_str(row.munt)
        skip                 == [st EXCEPT !.skipped_rows = @ + 1]
    IN  IF ~(Truthy(account_id) /\ Truthy(transaction_date_str)
             /\ Truthy(amount_str) /\ Truthy(currency))
        THEN skip
        ELSE
        LET transaction_date == ParseDate(transaction_date_str)
            amount_decimal   == ParseDecimal(Replace(amount_str, ",", "."))
        IN  IF transaction_date = 0 \/ ~amount_decimal.ok
            THEN skip
            ELSE
            LET mutation_type     == MutationTypeOf(amount_decimal)
                amount_abs        == AmountAbs(amount_decimal)
                counterparty_iban == clean_str(row.tegenrekening)
                counterparty_name == clean_str(row.naam)
                description_raw   ==
                    JoinDescription(<<clean_str(row.omschrijving1),
                                      clean_str(row.omschrijving2),
                                      clean_str(row.omschrijving3)>>)
                transaction_id    ==
                    generate_id(transaction_date, amount_abs, counterparty_iban,
                                counterparty_name, description_raw)
            IN  IF IsDuplicate(st, transaction_id)
                THEN skip
                ELSE [objs |-> Merge(st.objs,
                                 [id |-> transaction_id,
                                  account_id |-> account_id,
                                  transaction_date |-> transaction_date,
                                  amount |-> Quantize(amount_abs),
                                  currency |-> currency,
                                  counterparty_name |-> counterparty_name,
                                  counterparty_iban |-> counterparty_iban,
                                  description_raw |-> description_raw,
                                  mutation_type |-> mutation_type,
                                  bank_source |-> "Rabobank",
                                  subcategory_id |-> NULL]),
                      processed_ids |-> st.processed_ids \cup {transaction_id},
                      transactions_processed |-> st.transactions_processed + 1,
                      skipped_rows |-> st.skipped_rows]

RECURSIVE ImportLoop_StopAtSkip(_, _)
\* The loop left at the first row that is skipped.
ImportLoop_StopAtSkip(st, rows) ==
    IF rows = <<>> THEN st
    ELSE LET next == ImportRow(st, Head(rows))
         IN  IF next.skipped_rows > st.skipped_rows THEN next
             ELSE ImportLoop_StopAtSkip(next, Tail(rows))

RECURSIVE ImportLoop(_, _)
\* for index, row in df.iterrows()
ImportLoop(st, rows) ==
    IF rows = <<>> THEN st ELSE ImportLoop(ImportRow(st, Head(rows)), Tail(rows))

\* ------------------------------------------------------------------------
\* importers.py : import_budget_categories
\* ------------------------------------------------------------------------
Index(seq, x) == IF \E i \in 1..Len(seq) : seq[i] = x
                 THEN CHOOSE i \in 1..Len(seq) : seq[i] = x
                 ELSE 0

RECURSIVE CategoryMap(_, _)
\* The loop that builds category_map, a dict in insertion order: a sequence
\* of [name, subs].  Rows with a missing or blank group or a missing
\* category were dropped from the frame before.
CategoryMap(rows, map) ==
    IF rows = <<>> THEN map
    ELSE LET row  == Head(rows)
             kept == /\ row.group # NoStr /\ row.category # NoStr
                     /\ Strip(row.group) # <<>>
             group == clean_str(row.group)
             subcategory == clean_str(row.category)
             names == [i \in 1..Len(map) |-> map[i].name]
             map1 == IF Index(names, group) = 0
                     THEN Append(map, [name |-> group, subs |-> {}])
                     ELSE map
             i == Index([k \in 1..Len(map1) |-> map1[k].name], group)
             map2 == IF Truthy(subcategory)
                     THEN [map1 EXCEPT ![i].subs = @ \cup {subcategory}]
                     ELSE map1
         IN  IF kept THEN CategoryMap(Tail(rows), map2)
             ELSE CategoryMap(Tail(rows), map)

RECURSIVE SyncSubcategories(_, _, _)
\* "for sub_name in sub_names": sub_names in the order the set is iterated.
SyncSubcategories(subs, category_id, sub_names) ==
    IF sub_names = <<>> THEN subs
    ELSE LET found == \E i \in 1..Len(subs) :
                          subs[i] = [name |-> Head(sub_names), category_id |-> category_id]
         IN  SyncSubcategories(
                 IF found THEN subs
                 ELSE Append(subs, [name |-> Head(sub_names), category_id |-> category_id]),
                 category_id, Tail(sub_names))

RECURSIVE SyncCategories(_, _, _)
\* "for cat_name, sub_names in category_map.items()"; order[k] is the order
\* in which the set sub_names of the k-th remaining entry is iterated.
SyncCategories(st, map, order) ==
    IF map = <<>> THEN st
    ELSE LET cat_name == Head(map).name
             cats == IF Index(st.categories, cat_name) = 0
                     THEN Append(st.categories, cat_name)
                     ELSE st.categories
             category_id == Index(cats, cat_name)
         IN  SyncCategories(
                 [categories |-> cats,
                  subcategories |-> SyncSubcategories(st.subcategories, category_id, Head(order))],
                 Tail(map), Tail(order))

\* ------------------------------------------------------------------------
\* Inputs
\* ------------------------------------------------------------------------
RaboRow(datum, bedrag, tegenrekening, naam, omschrijving1) ==
    [account |-> <<"N","L","0","1">>, munt |-> <<"E","U","R">>, datum |-> datum, bedrag |-> bedrag,
     tegenrekening |-> tegenrekening, naam |-> naam,
     omschrijving1 |-> omschrijving1, omschrijving2 |-> NoStr, omschrijving3 |-> NoStr]

RowPayee == RaboRow(<<"2","0","2","4","-","0","1","-","0","2">>, <<"-","1","0",",","5","0">>, <<"N","1">>, <<"A","b">>, <<"B","v"," ","A","-","b">>)
RowPayer == RaboRow(<<"2","0","2","4","-","0","1","-","0","2">>, <<"+","2","5",",","0","0">>, NoStr, <<" "," ">>, <<"V","i","a"," ","A"," ","b">>)
RowBadDate == RaboRow(<<"2","0","2","4","-","1","3","-","0","1">>, <<"+","2","5",",","0","0">>, NoStr, <<"A","b">>, NoStr)
RowCash == RaboRow(<<"2","0","2","4","-","0","1","-","0","1">>, <<"-","5">>, NoStr, NoStr, NoStr)

RaboFiles ==
    { <<RowPayee, RowPayer, RowCash>>,
      <<RowPayee, RowBadDate, RowPayee>> }

BudgetFiles ==
    { << [group |-> <<"B","i","l","l","s">>, category |-> <<"R","e","n","t">>],
         [group |-> <<"F","o","o","d">>, category |-> <<"G","r","o","c","e","r","i","e","s">>],
         [group |-> <<"B","i","l","l","s">>, category |-> <<" ","R","e","n","t">>],
         [group |-> <<" "," ">>, category |-> <<"G","r","o","c","e","r","i","e","s">>] >> }

\* Arguments of the commands: subcategory 3 is never created.
SubcategoryIds == 1..3
RuleArgs ==
    { [type |-> IBAN, pattern |-> <<"N","1">>, subcategory_id |-> 1, priority |-> 10],
      [type |-> COUNTERPARTY_NAME, pattern |-> <<"a","B">>, subcategory_id |-> 2, priority |-> 10],
      [type |-> DESCRIPTION_CONTAINS, pattern |-> <<"A"," ","B">>, subcategory_id |-> 2, priority |-> 100],
      [type |-> IBAN, pattern |-> <<"N","1">>, subcategory_id |-> 3, priority |-> 10] }
Texts == { <<"a","b">>, <<"a","_">>, <<"V","I","A">> }

\* ------------------------------------------------------------------------
\* The operations
\* ------------------------------------------------------------------------
NO_COMMIT == "none"
COMMITTED == "committed"
ROLLED_BACK == "rolled_back"

\* What the try/except around db.commit() leaves in the store.
CommitOrRollback(stored, objs, commit_ok) ==
    IF commit_ok THEN Commit(stored, objs) ELSE Rollback(stored, objs)

CommitState(commit_ok) == IF commit_ok THEN COMMITTED ELSE ROLLED_BACK

Call(op, dry_run, ret, commit, logged) ==
    [op |-> op, dry_run |-> dry_run, ret |-> ret, commit |-> commit, logged |-> logged,
     printed |-> ""]

\* The call record of a command handler that printed msg.
Printed(call, msg) == [call EXCEPT !.printed = msg]

Init ==
    /\ categories = <<>>
    /\ subcategories = <<>>
    /\ transactions = <<>>
    /\ rules = <<>>
    /\ last = Call("init_db", FALSE, None, NO_COMMIT, "")
    /\ args = <<>>

\* import_budget_categories(db, filepath); commit_ok tells whether the store
\* accepts the commit.
import_budget_categories(file, commit_ok) ==
    LET map == CategoryMap(file, <<>>)
    IN  \E order \in {o \in [1..Len(map) -> UNION {Perms(map[k].subs) : k \in 1..Len(map)}] :
                         \A k \in 1..Len(map) : o[k] \in Perms(map[k].subs)} :
            LET st == SyncCategories([categories |-> categories,
                                      subcategories |-> subcategories], map, order)
            IN  /\ categories' = CommitOrRollback(categories, st.categories, commit_ok)
                /\ subcategories' = CommitOrRollback(subcategories, st.subcategories, commit_ok)
                /\ last' = Call("import_budget_categories", FALSE, None,
                                CommitState(commit_ok),
                                IF commit_ok THEN "" ELSE "Failed to commit budget categories to DB")
                /\ UNCHANGED <<transactions, rules, args>>

\* import_rabobank_csv(db, filepath) for the rows of the file: the
\* transaction rows it leaves in the store, the two counters it logs, what
\* it did with the unit of work and the error it logged.
import_rabobank_result(file, commit_ok) ==
    LET st == ImportLoop([objs |-> transactions, processed_ids |-> {},
                          transactions_processed |-> 0, skipped_rows |-> 0], file)
    IN  [objs |-> CommitOrRollback(transactions, st.objs, commit_ok),
         transactions_processed |-> st.transactions_processed,
         skipped_rows |-> st.skipped_rows,
         commit |-> CommitState(commit_ok),
         logged |-> IF commit_ok THEN "" ELSE "Failed to commit transactions to DB"]

import_rabobank_csv(file, commit_ok) ==
    \E r \in {import_rabobank_result(file, commit_ok)} :
        /\ transactions' = r.objs
        /\ last' = Call("import_rabobank_csv", FALSE, None, r.commit, r.logged)
        /\ UNCHANGED <<categories, subcategories, rules, args>>

\* The UPDATE restricted to the rows that have no subcategory yet.
BulkUpdate_Partial(stored, transaction_ids, subcategory_id) ==
    [id \in DOMAIN stored |->
        IF id \in transaction_ids /\ stored[id].subcategory_id = NULL
        THEN [stored[id] EXCEPT !.subcategory_id = subcategory_id]
        ELSE stored[id]]

\* UPDATE transactions SET subcategory_id = :subcategory_id WHERE id IN :ids
BulkUpdate(stored, transaction_ids, subcategory_id) ==
    [id \in DOMAIN stored |->
        IF id \in transaction_ids
        THEN [stored[id] EXCEPT !.subcategory_id = subcategory_id]
        ELSE stored[id]]

\* set_category_for_transactions(db, transaction_ids, subcategory_id): the
\* transaction rows it leaves in the store, what it returns, what it did with
\* the unit of work and the error it logged.  The function has no return
\* statement with a value: it returns None on every path.
set_category_result(transaction_ids, subcategory_id, commit_ok) ==
    IF ~SubcategoryExists(subcategory_id)
    THEN [objs |-> transactions, ret |-> None, commit |-> NO_COMMIT,
          logged |-> "No subcategory found"]
    ELSE [objs |-> CommitOrRollback(transactions,
                       BulkUpdate(transactions, transaction_ids, subcategory_id),
                       commit_ok),
          ret |-> None, commit |-> CommitState(commit_ok),
          logged |-> IF commit_ok THEN "" ELSE "Failed to update transactions in DB"]

set_category_for_transactions(transaction_ids, subcategory_id, commit_ok) ==
    \E r \in {set_category_result(transaction_ids, subcategory_id, commit_ok)} :
        /\ transactions' = r.objs
        /\ last' = Call("set_category_for_transactions", FALSE, r.ret, r.commit, r.logged)
        /\ UNCHANGED <<categories, subcategories, rules, args>>

\* The rule added and committed whatever the subcategory and the store say.
add_rule_result_Unchecked(type, pattern, subcategory_id, priority, commit_ok) ==
    [objs |-> Append(rules, [type |-> type, pattern |-> pattern,
                             subcategory_id |-> subcategory_id,
                             priority |-> priority]),
     ret |-> None, commit |-> COMMITTED, logged |-> ""]

\* add_rule(db, type, pattern, subcategory_id, priority): the rule rows it
\* leaves in the store, what it returns (None on every path), what it did
\* with the unit of work and the error it logged.
add_rule_result(type, pattern, subcategory_id, priority, commit_ok) ==
    LET new_rule == [type |-> type, pattern |-> pattern,
                     subcategory_id |-> subcategory_id, priority |-> priority]
    IN  IF ~SubcategoryExists(subcategory_id)
        THEN [objs |-> rules, ret |-> None, commit |-> NO_COMMIT,
              logged |-> "No subcategory found"]
        ELSE [objs |-> CommitOrRollback(rules, Append(rules, new_rule), commit_ok),
              ret |-> None, commit |-> CommitState(commit_ok),
              logged |-> IF commit_ok THEN "" ELSE "Failed to add rule to DB"]

add_rule(type, pattern, subcategory_id, priority, commit_ok) ==
    /\ Len(rules) < MaxRules
    /\ \E r \in {add_rule_result(type, pattern, subcategory_id, priority, commit_ok)} :
        /\ rules' = r.objs
        /\ last' = Call("add_rule", FALSE, r.ret, r.commit, r.logged)
        /\ UNCHANGED <<categories, subcategories, transactions, args>>

\* apply_rules(db, dry_run) when the two queries return the lists rs and ts:
\* the transaction objects it leaves, the count it returns, what it did with
\* the unit of work and the error it logged.  A dry run neither commits nor
\* rolls back: the session keeps the objects as the loop left them.
apply_rules_result(rs, ts, dry_run, commit_ok) ==
    IF rs = <<>>
    THEN [objs |-> transactions, ret |-> 0, commit |-> NO_COMMIT, logged |-> ""]
    ELSE IF ts = <<>>
    THEN [objs |-> transactions, ret |-> 0, commit |-> NO_COMMIT, logged |-> ""]
    ELSE LET res == ApplyLoop(ts, rs, transactions, 0, dry_run)
         IN  IF dry_run
             THEN [objs |-> res.objs, ret |-> res.count, commit |-> NO_COMMIT,
                   logged |-> ""]
             ELSE [objs |-> CommitOrRollback(transactions, res.objs, commit_ok),
                   ret |-> res.count, commit |-> CommitState(commit_ok),
                   logged |-> IF commit_ok THEN ""
                              ELSE "Failed to commit categorizations"]

apply_rules(dry_run, commit_ok) ==
    \E rs \in RulesByPriority, ts \in get_uncategorized_transactions :
        \E r \in {apply_rules_result(rs, ts, dry_run, commit_ok)} :
            /\ transactions' = r.objs
            /\ last' = Call("apply_rules", dry_run, IntVal(r.ret), r.commit, r.logged)
            /\ UNCHANGED <<categories, subcategories, rules, args>>

\* get_transactions_by_text(db, text_pattern), as a command of its own
find_by_text(text_pattern) ==
    \E found \in OrderByDateDesc(get_transactions_by_text(text_pattern)) :
        /\ last' = Call("get_transactions_by_text", FALSE,
                        ListVal(found), NO_COMMIT, "")
        /\ UNCHANGED <<categories, subcategories, transactions, rules, args>>

\* The answers typed at the (y/n) prompt of bulk-categorize.
Answers == { <<"y">>, <<"Y">>, <<"n">> }

\* The test of the answer without its comparison: every answer confirms.
Confirmed_Always(answer) == TRUE

\* confirm = input(...).lower();  if confirm == 'y'
Confirmed(answer) == Lower(answer) = <<"y">>

\* handle_bulk_categorize(args) when get_transactions_by_text(db, args.text)
\* returns the rows found: the transaction rows it leaves, whether it invoked
\* set_category_for_transactions, and what was committed, logged and printed.
bulk_categorize_result(found, category_id, answer, commit_ok) ==
    IF found = {}
    THEN [objs |-> transactions, invoked |-> FALSE, commit |-> NO_COMMIT,
          logged |-> "", printed |-> "No transactions found"]
    ELSE IF Confirmed(answer)
    THEN LET r == set_category_result(found, category_id, commit_ok)
         IN  [objs |-> r.objs, invoked |-> TRUE, commit |-> r.commit,
              logged |-> r.logged, printed |-> ""]
    ELSE [objs |-> transactions, invoked |-> FALSE, commit |-> NO_COMMIT,
          logged |-> "", printed |-> "Bulk categorization cancelled."]

handle_bulk_categorize(found, category_id, answer, commit_ok) ==
    \E r \in {bulk_categorize_result(found, category_id, answer, commit_ok)} :
        /\ transactions' = r.objs
        /\ last' = Printed(Call("handle_bulk_categorize", FALSE, None, r.commit, r.logged),
                           r.printed)
        /\ UNCHANGED <<categories, subcategories, rules, args>>

UnknownId == <<"?">>

ImportBudget == \E file \in BudgetFiles, commit_ok \in BOOLEAN :
                    import_budget_categories(file, commit_ok)

ImportRabobank == \E file \in RaboFiles, commit_ok \in BOOLEAN :
                      import_rabobank_csv(file, commit_ok)

\* The id lists tried: every set of stored ids, and the stored ids together
\* with an id that is not stored.
IdLists == SUBSET (DOMAIN transactions) \cup {DOMAIN transactions \cup {UnknownId}}

SetCategory == \E ids \in IdLists,
                  subcategory_id \in SubcategoryIds, commit_ok \in BOOLEAN :
                   set_category_for_transactions(ids, subcategory_id, commit_ok)

AddRule == \E a \in RuleArgs, commit_ok \in BOOLEAN :
               add_rule(a.type, a.pattern, a.subcategory_id, a.priority, commit_ok)

\* A dry run reaches no commit, so only the live run has two outcomes of it.
ApplyRules == \/ apply_rules(TRUE, TRUE)
              \/ \E commit_ok \in BOOLEAN : apply_rules(FALSE, commit_ok)

FindByText == \E text \in Texts : find_by_text(text)

BulkCategorize == \E text \in Texts :
                      \E found \in {get_transactions_by_text(text)} :
                          \E category_id \in SubcategoryIds,
                             answer \in Answers, commit_ok \in BOOLEAN :
                              handle_bulk_categorize(found, category_id, answer, commit_ok)

Next ==
    \/ ImportBudget
    \/ ImportRabobank
    \/ SetCategory
    \/ AddRule
    \/ ApplyRules
    \/ FindByText
    \/ BulkCategorize

Spec == Init /\ [][Next]_vars

\* ------------------------------------------------------------------------
\* One rule against one transaction: the store after a budget file of one
\* row, a Rabobank file of one row and one add_rule, for every rule and row
\* of the pools below; then apply_rules.
\* ------------------------------------------------------------------------
RuleTypes == {IBAN, COUNTERPARTY_NAME, DESCRIPTION_CONTAINS}

MatchPatterns ==
    { <<"N","1">>, <<"n","1">>, <<>>, <<"a","B">>, <<"a"," ","b">>, <<"A","-","b">> }

\* Cells of the columns "Tegenrekening IBAN/BBAN", "Naam tegenpartij" and
\* "Omschrijving-1": an empty cell is read as missing, a cell of blanks is
\* stripped to the empty string.
MatchIbans == { NoStr, <<" ">>, <<"N","1">>, <<"N","1","2">> }
MatchNames == { NoStr, <<" ">>, <<"A","b">>, <<"x","A","B"," ","N","1">> }
MatchDescs == { NoStr, <<"B","v"," ","A","-","b">>, <<"D","e"," ","A","B">>, <<"n","1">> }

MatchBudget == << [group |-> <<"B","i","l","l","s">>, category |-> <<"R","e","n","t">>] >>

InitMatch ==
    /\ \E st \in {SyncCategories([categories |-> <<>>, subcategories |-> <<>>],
                                  CategoryMap(MatchBudget, <<>>),
                                  << <<(<<"R","e","n","t">>)>> >>)} :
           /\ categories = st.categories
           /\ subcategories = st.subcategories
    /\ \E iban \in MatchIbans, name \in MatchNames, desc \in MatchDescs :
           transactions =
               ImportLoop([objs |-> <<>>, processed_ids |-> {},
                           transactions_processed |-> 0, skipped_rows |-> 0],
                          << RaboRow(<<"2","0","2","4","-","0","1","-","0","2">>,
                                     <<"-","5">>, iban, name, desc) >>).objs
    /\ \E type \in RuleTypes, pattern \in MatchPatterns :
           rules = << [type |-> type, pattern |-> pattern,
                       subcategory_id |-> 1, priority |-> 100] >>
    /\ last = Call("add_rule", FALSE, None, COMMITTED, "")
    /\ args = <<>>

MatchDryRun == apply_rules(TRUE, TRUE)

MatchLive == \E commit_ok \in BOOLEAN : apply_rules(FALSE, commit_ok)

NextMatch == MatchDryRun \/ MatchLive

\* ------------------------------------------------------------------------
\* generate_id on its own: every argument tuple of the pools below, then the
\* call.
\* ------------------------------------------------------------------------
IdDates == {20240102, 20240112}

\* Decimal values as [coeff, scale]: 10.50, 10.5, 5, 10.505, 10.515
IdAmounts ==
    { [coeff |-> 1050, scale |-> 2], [coeff |-> 105, scale |-> 1],
      [coeff |-> 5, scale |-> 0], [coeff |-> 10505, scale |-> 3],
      [coeff |-> 10515, scale |-> 3] }

IdIbans == { NoStr, <<>>, <<"N","1">>, <<"N","2">> }
IdNames == { NoStr, <<>>, <<"A","b">>, <<"N","1">> }
IdDescs == { NoStr, <<>>, <<"x">>, <<"A","b">> }

IdArgs ==
    {[transaction_date |-> d, amount |-> a, counterparty_iban |-> i,
      counterparty_name |-> n, description |-> x] :
        d \in IdDates, a \in IdAmounts, i \in IdIbans, n \in IdNames, x \in IdDescs}

\* Transaction.generate_id(**a)
generate_id_of(a) ==
    generate_id(a.transaction_date, a.amount, a.counterparty_iban,
                a.counterparty_name, a.description)

InitId ==
    /\ categories = <<>>
    /\ subcategories = <<>>
    /\ transactions = <<>>
    /\ rules = <<>>
    /\ last = Call("init_db", FALSE, None, NO_COMMIT, "")
    /\ args \in IdArgs

GenerateId ==
    /\ last' = Call("generate_id", FALSE, generate_id_of(args), NO_COMMIT, "")
    /\ UNCHANGED <<categories, subcategories, transactions, rules, args>>

NextId == GenerateId

SpecId == InitId /\ [][NextId]_vars

SpecMatch == InitMatch /\ [][NextMatch]_vars

\* ------------------------------------------------------------------------
\* normalize_description on its own: absent input and every text of at most
\* MaxTextLen characters of the alphabet below, then the call.
\* ------------------------------------------------------------------------
NormAlphabet == {"e", "n", "B", " ", "-", "É", "€"}

NormTexts ==
    {NoStr} \cup UNION {[1..n -> NormAlphabet] : n \in 0..MaxTextLen}

InitNorm ==
    /\ categories = <<>>
    /\ subcategories = <<>>
    /\ transactions = <<>>
    /\ rules = <<>>
    /\ last = Call("init_db", FALSE, None, NO_COMMIT, "")
    /\ \E text \in NormTexts : args = [text |-> text]

Normalize ==
    /\ last' = Call("normalize_description", FALSE,
                    normalize_description(args.text), NO_COMMIT, "")
    /\ UNCHANGED <<categories, subcategories, transactions, rules, args>>

NextNorm == Normalize

SpecNorm == InitNorm /\ [][NextNorm]_vars

\* ------------------------------------------------------------------------
\* import_rabobank_csv on its own: every file of at most MaxRows rows of the
\* pool below, imported into the empty store and imported again.
\* ------------------------------------------------------------------------
\* The logical row of RowPayee once more, booked on another account: the
\* amount with one decimal, the cells padded.
RowPayeeAgain ==
    [RaboRow(<<"2","0","2","4","-","0","1","-","0","2">>, <<"-","1","0",",","5">>,
             <<" ","N","1">>, <<"A","b">>, <<"B","v"," ","A","-","b"," ">>)
        EXCEPT !.account = <<"N","L","0","2">>]
RowBadAmount == [RowPayer EXCEPT !.bedrag = <<"1",".","0",",","5">>]
RowNoAccount == [RowPayer EXCEPT !.account = NoStr]
RowNoDate == [RowPayer EXCEPT !.datum = NoStr]
RowNoAmount == [RowPayer EXCEPT !.bedrag = <<" ">>]
RowNoCurrency == [RowPayer EXCEPT !.munt = NoStr]

ImportRows ==
    { RowPayee, RowPayeeAgain, RowPayer, RowBadDate, RowBadAmount,
      RowNoAccount, RowNoDate, RowNoAmount, RowNoCurrency }

ImportFiles == UNION {[1..n -> ImportRows] : n \in 1..MaxRows}

InitImport ==
    /\ categories = <<>>
    /\ subcategories = <<>>
    /\ transactions = <<>>
    /\ rules = <<>>
    /\ last = Call("init_db", FALSE, None, NO_COMMIT, "")
    /\ \E file \in ImportFiles : args = [file |-> file]

ImportFile == \E commit_ok \in BOOLEAN : import_rabobank_csv(args.file, commit_ok)

NextImport == ImportFile

SpecImport == InitImport /\ [][NextImport]_vars

\* ------------------------------------------------------------------------
\* The amounts of a file through import and the core operations: a store
\* with one subcategory, every file of at most MaxRows rows of the pool
\* below, and the commands that import it, categorize, add rules and apply
\* them.
\* ------------------------------------------------------------------------
\* RowPayee with the opposite sign: the money coming back.
RowRefund == [RowPayee EXCEPT !.bedrag = <<"+","1","0",",","5","0">>]
RowZero == RaboRow(<<"2","0","2","4","-","0","1","-","0","2">>, <<"0",",","0","0">>,
                   NoStr, <<"A","b">>, NoStr)

AmountRows == { RowPayee, RowRefund, RowZero }

AmountFiles == UNION {[1..n -> AmountRows] : n \in 1..MaxRows}

InitAmount ==
    /\ \E st \in {SyncCategories([categories |-> <<>>, subcategories |-> <<>>],
                                  CategoryMap(MatchBudget, <<>>),
                                  << <<(<<"R","e","n","t">>)>> >>)} :
           /\ categories = st.categories
           /\ subcategories = st.subcategories
    /\ transactions = <<>>
    /\ rules = <<>>
    /\ last = Call("import_budget_categories", FALSE, None, COMMITTED, "")
    /\ \E file \in AmountFiles : args = [file |-> file]

NextAmount ==
    \/ ImportFile
    \/ SetCategory
    \/ AddRule
    \/ ApplyRules

SpecAmount == InitAmount /\ [][NextAmount]_vars

\* ------------------------------------------------------------------------
\* Properties of apply_rules
\* ------------------------------------------------------------------------
\* The ids of the stored rules that match the stored transaction id.
MatchingRules(id) == {r \in DOMAIN rules : RuleMatches(rules[r], transactions[id])}

\* The uncategorized transactions that at least one rule matches.
Matched == {id \in Uncategorized : MatchingRules(id) # {}}

\* C1: in a live apply_rules whose commit succeeds, every transaction that
\* was uncategorized and is matched by a rule ends with the target of a
\* matching rule of the lowest priority number among its matching rules;
\* no rule of a higher priority number is applied to it.
C1_FirstMatchWins ==
    [][(last'.op = "apply_rules" /\ ~last'.dry_run /\ last'.commit = COMMITTED) =>
        \A id \in Matched :
            \E r \in MatchingRules(id) :
                /\ \A q \in MatchingRules(id) : rules[r].priority <= rules[q].priority
                /\ transactions'[id].subcategory_id = rules[r].subcategory_id]_vars

\* A committed live run has given a transaction the target of its matching
\* rule of priority 10 although a rule of priority 100 with another target
\* matches it too.
C1_Witness ==
    /\ last.op = "apply_rules" /\ ~last.dry_run /\ last.commit = COMMITTED
    /\ last.ret # IntVal(0)
    /\ \E id \in DOMAIN transactions : \E r, q \in MatchingRules(id) :
          /\ rules[r].priority < rules[q].priority
          /\ rules[r].subcategory_id # rules[q].subcategory_id
          /\ transactions[id].subcategory_id = rules[r].subcategory_id

C3_DryRunNoMutation ==
    [][(last'.op = "apply_rules" /\ last'.dry_run)
       => /\ \A id \in DOMAIN transactions :
                /\ id \in DOMAIN transactions'
                /\ transactions'[id].subcategory_id = transactions[id].subcategory_id
          /\ DOMAIN transactions' = DOMAIN transactions
          /\ last'.commit = NO_COMMIT]_vars

\* A dry run has counted matches and the transactions it counted are still
\* uncategorized.
C3_Witness ==
    /\ last.op = "apply_rules" /\ last.dry_run
    /\ last.ret = IntVal(Cardinality(Matched))
    /\ Cardinality(Matched) >= 2

\* C4: from every store state, a dry run and a live run return the same
\* count, whatever order the store returns rows in and whether or not the
\* live run's commit is accepted.
C4_DryRunSameCount ==
    LET dry  == {apply_rules_result(rs, ts, TRUE, TRUE).ret :
                    rs \in RulesByPriority, ts \in get_uncategorized_transactions}
        live == {apply_rules_result(rs, ts, FALSE, ok).ret :
                    rs \in RulesByPriority, ts \in get_uncategorized_transactions,
                    ok \in BOOLEAN}
    IN  \A d \in dry, l \in live : d = l

\* A dry run has returned a count of at least 1, which a live run from this
\* state returns too.
C4_Witness ==
    /\ last.op = "apply_rules" /\ last.dry_run /\ last.ret # IntVal(0)
    /\ \E rs \in RulesByPriority : \E ts \in get_uncategorized_transactions :
          /\ IntVal(apply_rules_result(rs, ts, FALSE, TRUE).ret) = last.ret
          /\ apply_rules_result(rs, ts, FALSE, TRUE).objs # transactions

\* C5: when the commit of a live apply_rules is rejected, no transaction's
\* subcategory_id differs from before the call and the call returns the
\* number of transactions it matched.
C5_RollbackKeepsCount ==
    [][(last'.op = "apply_rules" /\ ~last'.dry_run /\ last'.commit = ROLLED_BACK)
       => /\ transactions' = transactions
          /\ last'.ret = IntVal(Cardinality(Matched))]_vars

\* A live run whose commit was rejected has returned a count of at least 1
\* and the matched transactions are still uncategorized.
C5_Witness ==
    /\ last.op = "apply_rules" /\ ~last.dry_run /\ last.commit = ROLLED_BACK
    /\ last.ret = IntVal(Cardinality(Matched))
    /\ Cardinality(Matched) >= 1

\* ------------------------------------------------------------------------
\* Properties of set_category_for_transactions
\* ------------------------------------------------------------------------
\* C6: a call of set_category_for_transactions with an existing subcategory
\* either commits and leaves every stored transaction of the list with the
\* given subcategory_id, or rolls back and leaves the stored rows as they
\* were; it never updates only part of the list.
C6_AllOrNothing ==
    \A ids \in IdLists : \A sub \in DOMAIN subcategories : \A commit_ok \in BOOLEAN :
        \E r \in {set_category_result(ids, sub, commit_ok)} :
            \/ /\ r.commit = COMMITTED
               /\ \A id \in ids \cap DOMAIN transactions :
                      r.objs[id].subcategory_id = sub
            \/ /\ r.commit = ROLLED_BACK
               /\ r.objs = transactions

\* A committed call has left two transactions with one subcategory while
\* another transaction has none.
C6_Witness ==
    /\ last.op = "set_category_for_transactions" /\ last.commit = COMMITTED
    /\ \E a, b \in DOMAIN transactions :
          /\ a # b
          /\ transactions[a].subcategory_id # NULL
          /\ transactions[a].subcategory_id = transactions[b].subcategory_id
    /\ Uncategorized # {}

\* C7: a call of set_category_for_transactions with a subcategory_id that
\* is not stored changes no transaction, performs no commit and returns
\* (None) without raising.
C7_MissingSubcategoryNoChange ==
    \A ids \in IdLists : \A sub \in SubcategoryIds \ DOMAIN subcategories :
        \A commit_ok \in BOOLEAN :
            \E r \in {set_category_result(ids, sub, commit_ok)} :
                /\ r.objs = transactions
                /\ r.commit = NO_COMMIT
                /\ r.ret = None

\* A call has been refused for its subcategory in a store that holds
\* subcategories and uncategorized transactions.
C7_Witness ==
    /\ last.op = "set_category_for_transactions"
    /\ last.logged = "No subcategory found" /\ last.commit = NO_COMMIT
    /\ DOMAIN subcategories # {}
    /\ Uncategorized # {}

\* ------------------------------------------------------------------------
\* What the caller learns of a failure
\* ------------------------------------------------------------------------
\* The outcomes the three operations can have from the current state: the
\* value returned and whether an error (missing subcategory, rejected
\* commit) was met.
Outcomes ==
    {[op |-> "set_category_for_transactions", ret |-> r.ret, failed |-> r.logged # ""] :
        r \in {set_category_result(ids, sub, ok) :
                  ids \in IdLists, sub \in SubcategoryIds, ok \in BOOLEAN}}
    \cup
    {[op |-> "add_rule", ret |-> r.ret, failed |-> r.logged # ""] :
        r \in {add_rule_result(a.type, a.pattern, a.subcategory_id, a.priority, ok) :
                  a \in RuleArgs, ok \in BOOLEAN}}
    \cup
    {[op |-> "apply_rules", ret |-> IntVal(r.ret), failed |-> r.logged # ""] :
        r \in {apply_rules_result(rs, ts, FALSE, ok) :
                  rs \in RulesByPriority, ts \in get_uncategorized_transactions,
                  ok \in BOOLEAN}}

\* C8 as stated: the value an operation returns when it met a missing
\* subcategory or a rejected commit differs from every value it returns
\* when it succeeded.
C8_CallerInformed ==
    \A f, g \in Outcomes :
        (f.op = g.op /\ f.failed /\ ~g.failed) => f.ret # g.ret

\* ------------------------------------------------------------------------
\* Rules of equal priority
\* ------------------------------------------------------------------------
\* The matching rule of id that comes first by (priority, insertion order).
FirstDeclared(id) ==
    CHOOSE r \in MatchingRules(id) :
        \A q \in MatchingRules(id) :
            \/ rules[r].priority < rules[q].priority
            \/ (rules[r].priority = rules[q].priority /\ r <= q)

\* C9 as stated: a committed live apply_rules gives every matched
\* transaction the target of its matching rule of lowest priority number,
\* and among those of the one inserted first.
C9_TiesInInsertionOrder ==
    [][(last'.op = "apply_rules" /\ ~last'.dry_run /\ last'.commit = COMMITTED) =>
        \A id \in Matched :
            transactions'[id].subcategory_id = rules[FirstDeclared(id)].subcategory_id]_vars

\* ------------------------------------------------------------------------
\* Search by text
\* ------------------------------------------------------------------------
\* text is a substring of the field s when case is ignored; an absent field
\* contains nothing.
ContainsIgnoreCase(s, text) == s # NoStr /\ Contains(Lower(s), Lower(text))

\* C10 as stated: get_transactions_by_text returns exactly the uncategorized
\* transactions whose counterparty name or raw description contains the text
\* as a case-insensitive substring.
C10_ExactlySubstringMatches ==
    \A text \in Texts :
        get_transactions_by_text(text) =
            {id \in Uncategorized :
                \/ ContainsIgnoreCase(transactions[id].counterparty_name, text)
                \/ ContainsIgnoreCase(transactions[id].description_raw, text)}

C12_IbanExactMatch ==
    \A r \in DOMAIN rules : \A id \in DOMAIN transactions :
        rules[r].type = IBAN =>
            (RuleMatches(rules[r], transactions[id])
                <=> /\ transactions[id].counterparty_iban # NoStr
                    /\ Len(transactions[id].counterparty_iban) = Len(rules[r].pattern)
                    /\ \A i \in 1..Len(rules[r].pattern) :
                           transactions[id].counterparty_iban[i] = rules[r].pattern[i])

\* A committed live run with an iban rule has categorized the transaction
\* whose IBAN is the rule's pattern.
C12_Witness ==
    /\ last.op = "apply_rules" /\ ~last.dry_run /\ last.commit = COMMITTED
    /\ last.ret = IntVal(1)
    /\ \E r \in DOMAIN rules : \E id \in DOMAIN transactions :
          /\ rules[r].type = IBAN
          /\ rules[r].pattern # <<>>
          /\ transactions[id].counterparty_iban = rules[r].pattern
          /\ transactions[id].subcategory_id = rules[r].subcategory_id

C14_DescriptionContains ==
    \A r \in DOMAIN rules : \A id \in DOMAIN transactions :
        rules[r].type = DESCRIPTION_CONTAINS =>
            (RuleMatches(rules[r], transactions[id])
                <=> /\ transactions[id].description_raw # NoStr
                    /\ Contains(normalize_description(transactions[id].description_raw),
                                Lower(rules[r].pattern)))

\* A committed live run with a description_contains rule has categorized a
\* transaction whose raw description does not contain the lowercased
\* pattern while its normalized description does.
C14_Witness ==
    /\ last.op = "apply_rules" /\ ~last.dry_run /\ last.commit = COMMITTED
    /\ last.ret = IntVal(1)
    /\ \E r \in DOMAIN rules : \E id \in DOMAIN transactions :
          /\ rules[r].type = DESCRIPTION_CONTAINS
          /\ rules[r].pattern # <<>>
          /\ ~Contains(Lower(transactions[id].description_raw), Lower(rules[r].pattern))
          /\ Contains(normalize_description(transactions[id].description_raw),
                      Lower(rules[r].pattern))
          /\ transactions[id].subcategory_id = rules[r].subcategory_id

\* ------------------------------------------------------------------------
\* apply_rules with nothing to do
\* ------------------------------------------------------------------------
\* C15: when no rule is stored, or when no stored transaction is
\* uncategorized, apply_rules returns 0 and leaves the transaction rows as
\* they were, in dry-run and in live mode.
C15_NothingToDo ==
    (rules = <<>> \/ \A id \in DOMAIN transactions : transactions[id].subcategory_id # NULL)
    => \A rs \in RulesByPriority : \A ts \in get_uncategorized_transactions :
           \A dry_run \in BOOLEAN : \A commit_ok \in BOOLEAN :
               \E r \in {apply_rules_result(rs, ts, dry_run, commit_ok)} :
                   r.ret = 0 /\ r.objs = transactions

\* apply_rules has returned 0 in a store whose rules match transactions, all
\* of which are categorized.
C15_Witness ==
    /\ last.op = "apply_rules" /\ last.ret = IntVal(0)
    /\ rules # <<>>
    /\ DOMAIN transactions # {}
    /\ \A id \in DOMAIN transactions :
          transactions[id].subcategory_id # NULL
    /\ \E id \in DOMAIN transactions : \E r \in DOMAIN rules :
          /\ RuleMatches(rules[r], transactions[id])
          /\ rules[r].subcategory_id # transactions[id].subcategory_id

\* ------------------------------------------------------------------------
\* Properties of generate_id
\* ------------------------------------------------------------------------
\* Whitespace added before and after a string; an absent value has none.
Paddings == { <<>>, <<" ">> }

Padded(s, left, right) == IF s = NoStr THEN NoStr ELSE left \o s \o right

\* C16 as stated: whitespace added before or after any of the string
\* arguments iban, name and description never changes what generate_id
\* returns.
C16_PaddingInsensitive ==
    args \in IdArgs =>
        \A li, ri, ln, rn, ld, rd \in Paddings :
            generate_id_of([args EXCEPT
                !.counterparty_iban = Padded(@, li, ri),
                !.counterparty_name = Padded(@, ln, rn),
                !.description = Padded(@, ld, rd)])
            = generate_id_of(args)

\* The four things of which C17 speaks: the date, the amount as a value of
\* two decimals, the counterparty identity (the IBAN if there is one, else
\* the name, trimmed) and the trimmed description.
Components(a) ==
    [date |-> a.transaction_date,
     amount |-> Quantize(a.amount),
     counterparty |-> IF Truthy(a.counterparty_iban) THEN Strip(a.counterparty_iban)
                      ELSE IF Truthy(a.counterparty_name) THEN Strip(a.counterparty_name)
                      ELSE <<>>,
     description |-> IF Truthy(a.description) THEN Strip(a.description) ELSE <<>>]

\* The argument tuples that differ from a in exactly one component.
OneChanged(a) ==
    {b \in IdArgs :
        Cardinality({k \in {"date", "amount", "counterparty", "description"} :
                        Components(a)[k] # Components(b)[k]}) = 1}

\* C17: two argument tuples that differ in exactly one of date, amount of
\* two decimals, counterparty identity and trimmed description give
\* different strings to hash, hence different ids.
C17_SingleChangeChangesId ==
    args \in IdArgs =>
        \A b \in OneChanged(args) : generate_id_of(b) # generate_id_of(args)

\* generate_id has been called, and a tuple that differs from its arguments
\* in the amount only, one that differs in the counterparty only and one
\* that differs in the description only each give another id.
C17_Witness ==
    /\ last.op = "generate_id"
    /\ args \in IdArgs
    /\ last.ret = generate_id_of(args)
    /\ \A k \in {"date", "amount", "counterparty", "description"} :
          \E b \in OneChanged(args) :
              /\ Components(b)[k] # Components(args)[k]
              /\ generate_id_of(b) # last.ret

\* ------------------------------------------------------------------------
\* Properties of normalize_description
\* ------------------------------------------------------------------------
\* C18: normalize_description applied to its own result returns that
\* result, for every text; absent and empty input give the empty string.
C18_NormalizeIdempotent ==
    "text" \in DOMAIN args =>
        /\ normalize_description(normalize_description(args.text))
               = normalize_description(args.text)
        /\ args.text \in {NoStr, <<>>} => normalize_description(args.text) = <<>>

\* normalize_description has changed a text into a non-empty text, which a
\* second call returns unchanged.
C18_Witness ==
    /\ last.op = "normalize_description"
    /\ last.ret # <<>>
    /\ last.ret # args.text
    /\ Len(last.ret) < Len(args.text)
    /\ normalize_description(last.ret) = last.ret

\* ------------------------------------------------------------------------
\* Properties of import_rabobank_csv
\* ------------------------------------------------------------------------
\* A required cell of the row is absent or blank.
MissingRequired(row) ==
    \E cell \in {row.account, row.datum, row.bedrag, row.munt} :
        cell = NoStr \/ Strip(cell) = <<>>

\* The date or the amount of the row cannot be read.
Unparseable(row) ==
    /\ ~MissingRequired(row)
    /\ \/ ParseDate(Strip(row.datum)) = 0
       \/ ~ParseDecimal(Replace(Strip(row.bedrag), ",", ".")).ok

InvalidRow(row) == MissingRequired(row) \/ Unparseable(row)

\* What a valid row says: date, signed amount in cents, counterparty and
\* description.
LogicalRow(row) ==
    [date        |-> ParseDate(Strip(row.datum)),
     amount      |-> Quantize(ParseDecimal(Replace(Strip(row.bedrag), ",", "."))),
     iban        |-> clean_str(row.tegenrekening),
     name        |-> clean_str(row.naam),
     description |-> JoinDescription(<<clean_str(row.omschrijving1),
                                       clean_str(row.omschrijving2),
                                       clean_str(row.omschrijving3)>>)]

\* The same of a stored transaction.
LogicalStored(t) ==
    [date        |-> t.transaction_date,
     amount      |-> IF t.mutation_type = DEBIT THEN -t.amount ELSE t.amount,
     iban        |-> t.counterparty_iban,
     name        |-> t.counterparty_name,
     description |-> t.description_raw]

\* What the row says, if it is valid.
RowFact(row) ==
    IF InvalidRow(row) THEN [valid |-> FALSE, logical |-> <<>>]
    ELSE [valid |-> TRUE, logical |-> LogicalRow(row)]

RECURSIVE RowFacts(_)
\* The facts of the rows of a file, row by row.
RowFacts(rows) ==
    IF rows = <<>> THEN <<>> ELSE <<RowFact(Head(rows))>> \o RowFacts(Tail(rows))

ValidIn(facts) == {i \in DOMAIN facts : facts[i].valid}

\* The valid rows that say what an earlier valid row of the file says.
LaterIn(facts) ==
    {i \in ValidIn(facts) :
        \E j \in 1..(i - 1) : facts[j].valid /\ facts[j].logical = facts[i].logical}

ValidRows(file) == ValidIn(RowFacts(file))

LaterOccurrences(file) == LaterIn(RowFacts(file))

\* The stored transactions that say what a row says.
StoredAs(objs, logical) ==
    {id \in DOMAIN objs : LogicalStored(objs[id]) = logical}

StoredFor(objs, row) == StoredAs(objs, LogicalRow(row))

\* The state of the loop of an import into the store before its first row.
ImportStart ==
    [objs |-> transactions, processed_ids |-> {},
     transactions_processed |-> 0, skipped_rows |-> 0]

RECURSIVE ImportTrace(_, _)
\* The states of the loop before its first row and after each row.
ImportTrace(st, rows) ==
    IF rows = <<>> THEN <<st>>
    ELSE <<st>> \o ImportTrace(ImportRow(st, Head(rows)), Tail(rows))

\* C19: when a file is imported and the import is committed, a logical row
\* (date, amount, counterparty, description) that occurs more than once in
\* the file has exactly one stored transaction, which carries the account
\* and currency of the first occurrence; each later occurrence leaves the
\* store as it was and adds one to the skipped rows; and the valid rows
\* after it are stored and the import is committed.
C19_DuplicateInBatch ==
    "file" \in DOMAIN args =>
        \E facts \in {RowFacts(args.file)},
           trace \in {ImportTrace(ImportStart, args.file)},
           r \in {import_rabobank_result(args.file, TRUE)} :
            /\ r.commit = COMMITTED
            /\ r.skipped_rows >= Cardinality(LaterIn(facts))
            /\ \A i \in LaterIn(facts) :
                  LET first == CHOOSE j \in 1..(i - 1) :
                                   /\ facts[j].valid
                                   /\ facts[j].logical = facts[i].logical
                                   /\ j \notin LaterIn(facts)
                  IN  /\ trace[i + 1].objs = trace[i].objs
                      /\ trace[i + 1].skipped_rows = trace[i].skipped_rows + 1
                      /\ trace[i + 1].transactions_processed
                             = trace[i].transactions_processed
                      /\ Cardinality(StoredAs(r.objs, facts[i].logical)) = 1
                      /\ \A id \in StoredAs(r.objs, facts[i].logical) :
                            /\ r.objs[id].account_id = Strip(args.file[first].account)
                            /\ r.objs[id].currency = Strip(args.file[first].munt)
                      /\ \A k \in ValidIn(facts) :
                            k > i => StoredAs(r.objs, facts[k].logical) # {}

\* A committed import of a file in which a logical row comes twice, on
\* different accounts, with another valid row after it: two transactions
\* are stored, the duplicated one on the account of its first occurrence.
C19_Witness ==
    /\ last.op = "import_rabobank_csv"
    /\ last.commit = COMMITTED
    /\ "file" \in DOMAIN args
    /\ Len(args.file) = 3
    /\ LaterOccurrences(args.file) = {2}
    /\ args.file[1].account # args.file[2].account
    /\ ~InvalidRow(args.file[3])
    /\ Cardinality(DOMAIN transactions) = 2
    /\ \A id \in StoredFor(transactions, args.file[2]) :
          transactions[id].account_id = Strip(args.file[1].account)

\* C20: in an import every row with a required cell (account, date,
\* amount, currency) missing, or with a date or an amount that cannot be
\* read, leaves the store as it was and adds one to the skipped rows; every
\* valid row after it has its transaction in the store once the import is
\* committed; and, whether the commit is accepted or not, the processed
\* rows and the skipped rows add up to the rows of the file.
C20_SkipAndContinue ==
    "file" \in DOMAIN args =>
        \E facts \in {RowFacts(args.file)},
           trace \in {ImportTrace(ImportStart, args.file)},
           r \in {import_rabobank_result(args.file, TRUE)},
           failed \in {import_rabobank_result(args.file, FALSE)} :
            /\ r.transactions_processed + r.skipped_rows = Len(args.file)
            /\ failed.transactions_processed + failed.skipped_rows = Len(args.file)
            /\ r.skipped_rows >= Len(args.file) - Cardinality(ValidIn(facts))
            /\ \A i \in (1..Len(args.file)) \ ValidIn(facts) :
                  /\ trace[i + 1].objs = trace[i].objs
                  /\ trace[i + 1].skipped_rows = trace[i].skipped_rows + 1
                  /\ trace[i + 1].transactions_processed
                         = trace[i].transactions_processed
                  /\ \A k \in ValidIn(facts) :
                        k > i => StoredAs(r.objs, facts[k].logical) # {}

\* A committed import of a file that begins with a row lacking a required
\* cell, goes on with a row that cannot be parsed and ends with a valid
\* row: the transaction of the valid row is the one stored.
C20_Witness ==
    /\ last.op = "import_rabobank_csv"
    /\ last.commit = COMMITTED
    /\ "file" \in DOMAIN args
    /\ Len(args.file) = 3
    /\ MissingRequired(args.file[1])
    /\ Unparseable(args.file[2])
    /\ ValidRows(args.file) = {3}
    /\ DOMAIN transactions = StoredFor(transactions, args.file[3])
    /\ Cardinality(DOMAIN transactions) = 1

\* ------------------------------------------------------------------------
\* Properties of add_rule
\* ------------------------------------------------------------------------
\* C21: add_rule with a subcategory_id that is not stored leaves the stored
\* rules as they were and performs no commit; add_rule with a stored
\* subcategory whose commit is rejected rolls back and leaves the stored
\* rules as they were.
C21_NoRuleOnFailure ==
    \A a \in RuleArgs : \A commit_ok \in BOOLEAN :
        \E r \in {add_rule_result(a.type, a.pattern, a.subcategory_id,
                                  a.priority, commit_ok)} :
            /\ a.subcategory_id \notin DOMAIN subcategories =>
                  r.objs = rules /\ r.commit = NO_COMMIT
            /\ (a.subcategory_id \in DOMAIN subcategories /\ ~commit_ok) =>
                  r.objs = rules /\ r.commit = ROLLED_BACK

\* add_rule has been refused for its subcategory in a store that holds
\* subcategories and a rule.
C21_Witness ==
    /\ last.op = "add_rule"
    /\ last.logged = "No subcategory found" /\ last.commit = NO_COMMIT
    /\ DOMAIN subcategories # {}
    /\ Len(rules) = 1

\* ------------------------------------------------------------------------
\* Properties of the stored amounts
\* ------------------------------------------------------------------------
\* The amount of the row's cell "Bedrag" in cents, with its sign.
SourceCents(row) == Quantize(ParseDecimal(Replace(Strip(row.bedrag), ",", ".")))

\* The operations of core.py that write.
CoreOperations == {"set_category_for_transactions", "add_rule", "apply_rules"}

\* C22: every stored transaction has an amount of at least zero; a row
\* that an import stores is stored with the absolute value of its source
\* amount, as a debit when the source amount is negative and as a credit
\* when it is zero or positive; and set_category_for_transactions, add_rule
\* and apply_rules leave amount and mutation_type of every stored
\* transaction as they were.
C22_AmountNonNegative ==
    [][/\ \A id \in DOMAIN transactions' :
             /\ transactions'[id].amount >= 0
             /\ transactions'[id].mutation_type \in {DEBIT, CREDIT}
       /\ (last'.op = "import_rabobank_csv" /\ last'.commit = COMMITTED) =>
             \E facts \in {RowFacts(args.file)},
                trace \in {ImportTrace(ImportStart, args.file)} :
                 \A i \in 1..Len(args.file) :
                     trace[i + 1].transactions_processed
                         > trace[i].transactions_processed =>
                         \E id \in StoredAs(transactions', facts[i].logical) :
                             /\ transactions'[id].amount = Abs(SourceCents(args.file[i]))
                             /\ transactions'[id].mutation_type =
                                    IF SourceCents(args.file[i]) < 0 THEN DEBIT ELSE CREDIT
       /\ last'.op \in CoreOperations =>
             \A id \in DOMAIN transactions :
                 /\ id \in DOMAIN transactions'
                 /\ transactions'[id].amount = transactions[id].amount
                 /\ transactions'[id].mutation_type = transactions[id].mutation_type
      ]_vars

\* A file with a payment and a row of amount zero has been imported and a
\* live apply_rules has categorized the payment: it is stored as a debit
\* of 10.50, the other row as a credit of zero.
C22_Witness ==
    /\ last.op = "apply_rules" /\ last.commit = COMMITTED /\ last.ret = IntVal(1)
    /\ "file" \in DOMAIN args
    /\ \E a, b \in DOMAIN transactions :
          /\ transactions[a].amount = 1050
          /\ transactions[a].mutation_type = DEBIT
          /\ transactions[a].subcategory_id # NULL
          /\ transactions[b].amount = 0
          /\ transactions[b].mutation_type = CREDIT

\* ------------------------------------------------------------------------
\* The frame of apply_rules
\* ------------------------------------------------------------------------
\* The stored transactions whose subcategory_id the step has changed.
Changed ==
    {id \in DOMAIN transactions :
        transactions'[id].subcategory_id # transactions[id].subcategory_id}

\* C23 as stated: every apply_rules leaves the transactions that were
\* categorized or that no rule matches as they were, and returns the number
\* of transactions whose subcategory_id it has changed.
C23_CountIsChanged ==
    [][last'.op = "apply_rules" =>
          /\ DOMAIN transactions' = DOMAIN transactions
          /\ \A id \in DOMAIN transactions \ Matched :
                transactions'[id] = transactions[id]
          /\ last'.ret = IntVal(Cardinality(Changed))]_vars

\* C23 amended: every apply_rules leaves the transactions that were
\* categorized or that no rule matches as they were and returns the number
\* of uncategorized transactions that a rule matches, each counted once; a
\* live run whose commit is accepted has changed the subcategory_id of
\* exactly those, a dry run and a run whose commit is rejected of none.
C23_CountIsMatched ==
    [][last'.op = "apply_rules" =>
          /\ DOMAIN transactions' = DOMAIN transactions
          /\ \A id \in DOMAIN transactions \ Matched :
                transactions'[id] = transactions[id]
          /\ last'.ret = IntVal(Cardinality(Matched))
          /\ Changed = IF ~last'.dry_run /\ last'.commit = COMMITTED
                       THEN Matched ELSE {}]_vars

\* A committed live run has categorized one transaction; a transaction
\* that was categorized before still has a subcategory that is the target
\* of none of the rules matching it, and a transaction that no rule matches
\* is still uncategorized.
C23_Witness ==
    /\ last.op = "apply_rules" /\ ~last.dry_run /\ last.commit = COMMITTED
    /\ last.ret = IntVal(1)
    /\ \E id \in DOMAIN transactions :
          /\ transactions[id].subcategory_id # NULL
          /\ MatchingRules(id) # {}
          /\ \A r \in MatchingRules(id) :
                rules[r].subcategory_id # transactions[id].subcategory_id
    /\ \E id \in Uncategorized : MatchingRules(id) = {}

\* ------------------------------------------------------------------------
\* The life of a transaction
\* ------------------------------------------------------------------------
\* C24: in every step of the commands (imports, add_rule,
\* set_category_for_transactions, apply_rules and the others), a stored
\* transaction with a subcategory_id is still stored afterwards, under the
\* same id, and still has a subcategory_id; so the import of a file that
\* holds a categorized transaction again keeps its row and its category.
C24_CategorizedStays ==
    [][\A id \in DOMAIN transactions :
          transactions[id].subcategory_id # NULL =>
              /\ id \in DOMAIN transactions'
              /\ transactions'[id].subcategory_id # NULL
              /\ last'.op = "import_rabobank_csv" =>
                    transactions'[id].subcategory_id = transactions[id].subcategory_id
      ]_vars

\* A committed import has just run over a store in which the payment that
\* every file holds is categorized: the import came after the
\* categorization and the transaction has kept it.
C24_Witness ==
    /\ last.op = "import_rabobank_csv" /\ last.commit = COMMITTED
    /\ \E id \in DOMAIN transactions :
          /\ transactions[id].subcategory_id # NULL
          /\ transactions[id].counterparty_iban = <<"N","1">>
          /\ \A file \in RaboFiles : StoredFor(transactions, file[1]) = {id}
    /\ Uncategorized # {}

\* ------------------------------------------------------------------------
\* Referential integrity
\* ------------------------------------------------------------------------
\* C25: in every state the commands reach from the empty store, the
\* subcategory_id of every categorized transaction and of every rule is the
\* id of a stored subcategory, and the category_id of every subcategory is
\* the id of a stored category.
C25_ReferentialIntegrity ==
    /\ \A id \in DOMAIN transactions :
          \/ transactions[id].subcategory_id = NULL
          \/ transactions[id].subcategory_id \in DOMAIN subcategories
    /\ \A r \in DOMAIN rules : rules[r].subcategory_id \in DOMAIN subcategories
    /\ \A sub \in DOMAIN subcategories :
          subcategories[sub].category_id \in DOMAIN categories

\* A store with a rule and a categorized transaction, in which a call has
\* just been refused for a subcategory that is not stored.
C25_Witness ==
    /\ last.logged = "No subcategory found"
    /\ rules # <<>>
    /\ \E id \in DOMAIN transactions : transactions[id].subcategory_id # NULL
    /\ SubcategoryIds \ DOMAIN subcategories # {}

\* ------------------------------------------------------------------------
\* Collisions of generate_id
\* ------------------------------------------------------------------------
\* C26: two argument tuples whose components (date, amount of two
\* decimals, trimmed counterparty identity, trimmed description) differ in
\* at least one place give different strings to hash, hence different ids.
C26_DistinctTuplesDistinctIds ==
    args \in IdArgs =>
        \A b \in IdArgs :
            Components(b) # Components(args) => generate_id_of(b) # generate_id_of(args)

\* ------------------------------------------------------------------------
\* Rows of opposite sign
\* ------------------------------------------------------------------------
\* The id import_rabobank_csv computes for a valid row.
RowId(row) ==
    CHOOSE id \in DOMAIN ImportRow([objs |-> <<>>, processed_ids |-> {},
                                    transactions_processed |-> 0,
                                    skipped_rows |-> 0], row).objs : TRUE

\* Two valid rows that say the same but for the sign of an amount that is
\* not zero.
Opposite(a, b) ==
    /\ a.amount # 0
    /\ b = [a EXCEPT !.amount = -a.amount]

\* C27: when a file holds two valid rows with the same date, counterparty
\* and description and the amounts +x and -x, import_rabobank_csv computes
\* the same id for both; the later one leaves the store as it was and is
\* counted as skipped, and after the commit the one transaction of that id
\* has the mutation_type of the first row of the file with that id.
C27_OppositeSignsCollide ==
    "file" \in DOMAIN args =>
        \E facts \in {RowFacts(args.file)},
           trace \in {ImportTrace(ImportStart, args.file)},
           r \in {import_rabobank_result(args.file, TRUE)} :
            \A j \in ValidIn(facts) : \A i \in 1..(j - 1) :
                (facts[i].valid /\ Opposite(facts[i].logical, facts[j].logical)) =>
                    LET id    == RowId(args.file[j])
                        first == CHOOSE k \in 1..i :
                                     /\ facts[k].valid
                                     /\ RowId(args.file[k]) = id
                                     /\ \A m \in 1..(k - 1) :
                                           facts[m].valid => RowId(args.file[m]) # id
                    IN  /\ RowId(args.file[i]) = id
                        /\ trace[j + 1].objs = trace[j].objs
                        /\ trace[j + 1].skipped_rows = trace[j].skipped_rows + 1
                        /\ id \in DOMAIN r.objs
                        /\ r.objs[id].mutation_type =
                               IF SourceCents(args.file[first]) < 0 THEN DEBIT ELSE CREDIT

\* A committed import of a file that holds a payment and, after it, the
\* same row as a credit: one transaction is stored, the debit.
C27_Witness ==
    /\ last.op = "import_rabobank_csv" /\ last.commit = COMMITTED
    /\ "file" \in DOMAIN args
    /\ Len(args.file) = 2
    /\ SourceCents(args.file[1]) < 0
    /\ Opposite(LogicalRow(args.file[1]), LogicalRow(args.file[2]))
    /\ Cardinality(DOMAIN transactions) = 1
    /\ \A id \in DOMAIN transactions :
          /\ transactions[id].mutation_type = DEBIT
          /\ transactions[id].amount = -SourceCents(args.file[1])

====
